---- MODULE Spec2Model ----
(***************************************************************************)
(* Compile-time concept checks of src/main.cpp (namespace otus).           *)
(*                                                                         *)
(* A candidate type is described by what the checks inspect: its type      *)
(* traits, its std::iterator_traits bundle and the decltype of every       *)
(* expression the usage bodies name.  Compiling a translation unit is a    *)
(* small state machine: the assertions are parsed one after the other,     *)
(* the asserted concept class and its base classes are instantiated        *)
(* (associated types are extracted there), each class asks for its         *)
(* BOOST_CONCEPT_USAGE body, and what was asked for is instantiated at the *)
(* end of the translation unit, first asked first served, each requirement *)
(* that does not hold appending one diagnostic.  The header of line 1      *)
(* comes in two configurations, with BOOST_OLD_CONCEPT_SUPPORT (its        *)
(* default) and without; they differ in when the asserted class is         *)
(* completed, and so in the order of the bodies and in what is still       *)
(* instantiated after an error.                                            *)
(***************************************************************************)
EXTENDS Integers, Sequences, FiniteSets

VARIABLES unit, testNo, assertions, cand, asserted, cascade, oldSupport, pc, classQueue, pending, known, errorsAt, diags

vars == <<unit, testNo, assertions, cand, asserted, cascade, oldSupport, pc, classQueue, pending, known, errorsAt, diags>>

(***************************************************************************)
(* Bounds.                                                                 *)
(***************************************************************************)
\* a probed candidate differs from a conforming random-access iterator in at
\* most this many inspected properties
MaxDefects == 1

(***************************************************************************)
(* Types as decltype reports them: a base type and a value category.       *)
(* prvalue = U, lvalue = U&, clvalue = const U&.                           *)
(***************************************************************************)
Ty(b, c) == [base |-> b, cat |-> c]

\* an expression that does not compile for the candidate
NoExpr == Ty("none", "none")
Void == Ty("void", "prvalue")
Tval == Ty("T", "prvalue")
Tref == Ty("T", "lvalue")
Tcref == Ty("T", "clvalue")
Bool == Ty("bool", "prvalue")
IntVal == Ty("int", "prvalue")
IntRef == Ty("int", "lvalue")
Long == Ty("long", "prvalue")
Proxy == Ty("proxy", "prvalue")

Arithmetic == {"bool", "int", "long"}

\* std::is_same_v
IsSame(from, to) == from = to

\* implicit conversion between unqualified base types
BaseConvertible(a, b) ==
    \/ a = b /\ a \notin {"void", "none"}
    \/ a \in Arithmetic /\ b \in Arithmetic

\* variant: every type is taken to convert to void
IsConvertibleToVoid(from, to) ==
    IF from = NoExpr \/ to = NoExpr THEN FALSE
    ELSE IF to.base = "void" THEN TRUE
    ELSE IF from.base = "void" THEN FALSE
    ELSE IF to.cat = "lvalue"
         THEN from.cat = "lvalue" /\ from.base = to.base
    ELSE BaseConvertible(from.base, to.base)

\* std::is_convertible_v, and the initialisation  To x = from;
IsConvertible(from, to) ==
    IF from = NoExpr \/ to = NoExpr THEN FALSE
    ELSE IF to.base = "void" \/ from.base = "void"
         THEN to.base = "void" /\ from.base = "void"
    ELSE IF to.cat = "lvalue"
         THEN from.cat = "lvalue" /\ from.base = to.base
    ELSE BaseConvertible(from.base, to.base)

(***************************************************************************)
(* Candidate types.  Every field is something a check inspects.            *)
(***************************************************************************)
TraitFields == {"default_constructible", "copy_constructible", "copy_assignable",
                "destructible", "swappable"}

AssocFields == {"value_type", "reference", "difference_type"}

ExprFields == {"eq_ab", "eq_aa", "deref", "preinc", "neq", "postinc", "deref_postinc",
               "predec", "postdec", "deref_postdec", "plus_assign", "a_plus_n",
               "n_plus_a", "minus_assign", "i_minus_n", "b_minus_a", "index",
               "lt", "gt", "ge", "le"}

\* std::vector<int>::iterator
VectorIter ==
    [traits |-> TRUE, value_type |-> IntVal, reference |-> IntRef, difference_type |-> Long,
     default_constructible |-> TRUE, copy_constructible |-> TRUE, copy_assignable |-> TRUE,
     destructible |-> TRUE, swappable |-> TRUE,
     eq_ab |-> Bool, eq_aa |-> Bool, deref |-> IntRef, preinc |-> Tref, neq |-> Bool,
     postinc |-> Tval, deref_postinc |-> IntRef,
     predec |-> Tref, postdec |-> Tval, deref_postdec |-> IntRef,
     plus_assign |-> Tref, a_plus_n |-> Tval, n_plus_a |-> Tval, minus_assign |-> Tref,
     i_minus_n |-> Tval, b_minus_a |-> Long, index |-> IntRef,
     lt |-> Bool, gt |-> Bool, ge |-> Bool, le |-> Bool]

\* the operators only a random-access iterator has
NoRandomAccess ==
    [f \in {"plus_assign", "a_plus_n", "n_plus_a", "minus_assign", "i_minus_n",
            "b_minus_a", "index", "lt", "gt", "ge", "le"} |-> NoExpr]

NoDecrement == [f \in {"predec", "postdec", "deref_postdec"} |-> NoExpr]

\* r with the fields of the function o replaced by o's values
Override(r, o) == [f \in DOMAIN r |-> IF f \in DOMAIN o THEN o[f] ELSE r[f]]

\* std::list<int>::iterator
ListIter == Override(VectorIter, NoRandomAccess)

\* std::forward_list<int>::iterator
FwdListIter == Override(ListIter, NoDecrement)

\* std::istreambuf_iterator<int>; operator++(int) returns what the library
\* chooses: the iterator by value, or a proxy that only dereferences
IstreambufIter(post) ==
    Override(FwdListIter,
             [reference |-> IntVal, deref |-> IntVal, postinc |-> post,
              deref_postinc |-> IntVal])

IstreambufPostIncrement == {Tval, Proxy}

\* std::ostreambuf_iterator<int>: *i, ++i and i++ all return *this
OstreambufIter ==
    Override(FwdListIter,
             [value_type |-> Void, reference |-> Void, difference_type |-> Void,
              default_constructible |-> FALSE,
              eq_ab |-> NoExpr, eq_aa |-> NoExpr, neq |-> NoExpr,
              deref |-> Tref, postinc |-> Tref, deref_postinc |-> Tref])

\* struct Disabled: deleted default constructor, deleted operator==, no iterator shape
Disabled ==
    Override(Override(VectorIter, [f \in ExprFields \cup AssocFields |-> NoExpr]),
             [traits |-> FALSE, default_constructible |-> FALSE])

(***************************************************************************)
(* The concept classes.                                                    *)
(***************************************************************************)
Concepts == {"DefaultConstructibleConcept", "EqualityComparableConcept",
             "IteratorConcept", "InputIteratorConcept", "ForwardIteratorConcept",
             "BidirectionalIteratorConcept", "RandomAccessIteratorConcept"}

IteratorLevels == Concepts \ {"DefaultConstructibleConcept", "EqualityComparableConcept"}

\* one requirement of a usage body: the source line, the kind of check, the
\* inspected property, the type it is compared with, the associated types the
\* statement names, and the static_assert message
Req(l, k, e, t, n, m) ==
    [line |-> l, kind |-> k, expr |-> e, target |-> t, needs |-> n, msg |-> m]

\* variant: the wrong trait is asserted
DefaultConstructibleConceptCopy ==
    << Req(13, "trait", "copy_constructible", "", {},
           "Type is not default constructible&") >>

DefaultConstructibleConcept ==
    << Req(13, "trait", "default_constructible", "", {},
           "Type is not default constructible&") >>

EqualityComparableConcept ==
    << Req(19, "same", "eq_ab", "bool", {}, "Type is not equality comparable"),
       Req(20, "same", "eq_aa", "bool", {}, "Type is not equality comparable") >>

\* variant: the swappable assertion is missing
IteratorConceptNoSwap ==
    << Req(35, "trait", "copy_constructible", "", {},
           "Type is not an iterator because it is not copy constructible"),
       Req(36, "trait", "copy_assignable", "", {},
           "Type is not an iterator because it is not copy assignable"),
       Req(37, "trait", "destructible", "", {},
           "Type is not an iterator because it is not destructable"),
       Req(39, "expr", "deref", "", {}, ""),
       Req(40, "init", "preinc", "T&", {}, "") >>

IteratorConcept ==
    << Req(35, "trait", "copy_constructible", "", {},
           "Type is not an iterator because it is not copy constructible"),
       Req(36, "trait", "copy_assignable", "", {},
           "Type is not an iterator because it is not copy assignable"),
       Req(37, "trait", "destructible", "", {},
           "Type is not an iterator because it is not destructable"),
       Req(38, "trait", "swappable", "", {},
           "Type is not an iterator because it is not swappable"),
       Req(39, "expr", "deref", "", {}, ""),
       Req(40, "init", "preinc", "T&", {}, "") >>

\* variant: operator* is compared with value_type instead of reference
InputIteratorConceptByValue ==
    << Req(51, "same", "neq", "bool", {},
           "Type is not InputIterator because comparasion is not a bool"),
       Req(52, "same", "deref", "value_type", {"value_type"},
           "Type is not InputIterator because operator* doesn't reference"),
       Req(53, "conv", "deref", "value_type", {"value_type"},
           "Type is not InputIterator because reference doesn't convertible to value_type"),
       Req(55, "same", "preinc", "T&", {},
           "Type is not InputIterator because operator++ doesn't reference"),
       Req(56, "expr", "postinc", "", {}, ""),
       Req(57, "conv", "deref_postinc", "value_type", {"value_type"},
           "Type is not InputIterator because *i++ doesn't convertible to value_type") >>

InputIteratorConcept ==
    << Req(51, "same", "neq", "bool", {},
           "Type is not InputIterator because comparasion is not a bool"),
       Req(52, "same", "deref", "reference", {"reference"},
           "Type is not InputIterator because operator* doesn't reference"),
       Req(53, "conv", "deref", "value_type", {"value_type"},
           "Type is not InputIterator because reference doesn't convertible to value_type"),
       Req(55, "same", "preinc", "T&", {},
           "Type is not InputIterator because operator++ doesn't reference"),
       Req(56, "expr", "postinc", "", {}, ""),
       Req(57, "conv", "deref_postinc", "value_type", {"value_type"},
           "Type is not InputIterator because *i++ doesn't convertible to value_type") >>

\* variant: the result type of i++ is not asserted
ForwardIteratorConceptNoPostfix ==
    << Req(69, "same", "deref_postinc", "reference", {"reference"},
           "Type is not ForwardIterator because increment doesn't return an iterator") >>

ForwardIteratorConcept ==
    << Req(68, "same", "postinc", "T", {},
           "Type is not ForwardIterator because increment doesn't return an iterator"),
       Req(69, "same", "deref_postinc", "reference", {"reference"},
           "Type is not ForwardIterator because increment doesn't return an iterator") >>

\* variant: the increment operators are asserted again instead of the decrement ones
BidirectionalIteratorConceptIncrement ==
    << Req(79, "same", "preinc", "T&", {},
           "Type is not BidirectionalIterator because decrement operator doesn't return a reference of the type"),
       Req(80, "conv", "postinc", "const T&", {},
           "Type is not BidirectionalIterator because decrement operator doesn't convertible to a const reference of the type"),
       Req(81, "same", "deref_postinc", "reference", {"reference"},
           "Type is not BidirectionalIterator because *i-- doesn't return reference") >>

BidirectionalIteratorConcept ==
    << Req(79, "same", "predec", "T&", {},
           "Type is not BidirectionalIterator because decrement operator doesn't return a reference of the type"),
       Req(80, "conv", "postdec", "const T&", {},
           "Type is not BidirectionalIterator because decrement operator doesn't convertible to a const reference of the type"),
       Req(81, "same", "deref_postdec", "reference", {"reference"},
           "Type is not BidirectionalIterator because *i-- doesn't return reference") >>

RandomAccessIteratorConcept ==
    << Req(93, "same", "plus_assign", "T&", {"difference_type"},
           "Type is not RandomAccessIterator because an operator+= doesn't return a reference to an iterator"),
       Req(94, "same", "a_plus_n", "T", {"difference_type"},
           "Type is not RandomAccessIterator because a sum of an iterator and difference_type isn't an iterator"),
       Req(95, "same", "n_plus_a", "T", {"difference_type"},
           "Type is not RandomAccessIterator because a sum of difference_type and an iterator isn't an iterator"),
       Req(96, "same", "minus_assign", "T&", {"difference_type"},
           "Type is not RandomAccessIterator because an operator-= doesn't return a reference to an iterator"),
       Req(97, "same", "i_minus_n", "T", {"difference_type"},
           "Type is not RandomAccessIterator because a difference of an iterator and a difference_type isn't an iterator"),
       Req(98, "same", "b_minus_a", "difference_type", {"difference_type"},
           "Type is not RandomAccessIterator because a difference of iterators isn't a difference_type"),
       Req(99, "conv", "index", "reference", {"difference_type", "reference"},
           "Type is not RandomAccessIterator because index operator doesn't return a reference"),
       Req(100, "same", "lt", "bool", {},
           "Type is not RandomAccessIterator because comparison doesn't return a bool"),
       Req(101, "same", "gt", "bool", {},
           "Type is not RandomAccessIterator because comparison doesn't return a bool"),
       Req(102, "same", "ge", "bool", {},
           "Type is not RandomAccessIterator because comparison doesn't return a bool"),
       Req(103, "same", "le", "bool", {},
           "Type is not RandomAccessIterator because comparison doesn't return a bool") >>

\* the body BOOST_CONCEPT_USAGE gives concept class c
Usage(c) ==
    CASE c = "DefaultConstructibleConcept" -> DefaultConstructibleConcept
      [] c = "EqualityComparableConcept" -> EqualityComparableConcept
      [] c = "IteratorConcept" -> IteratorConcept
      [] c = "InputIteratorConcept" -> InputIteratorConcept
      [] c = "ForwardIteratorConcept" -> ForwardIteratorConcept
      [] c = "BidirectionalIteratorConcept" -> BidirectionalIteratorConcept
      [] c = "RandomAccessIteratorConcept" -> RandomAccessIteratorConcept

\* variant: ForwardIteratorConcept derives from InputIteratorConcept only
BasesForwardInputOnly(c) ==
    CASE c = "InputIteratorConcept" -> <<"EqualityComparableConcept", "IteratorConcept">>
      [] c = "ForwardIteratorConcept" -> <<"InputIteratorConcept">>
      [] c = "BidirectionalIteratorConcept" -> <<"ForwardIteratorConcept">>
      [] c = "RandomAccessIteratorConcept" -> <<"BidirectionalIteratorConcept">>
      [] OTHER -> <<>>

\* variant: InputIteratorConcept derives from IteratorConcept only
BasesInputIteratorOnly(c) ==
    CASE c = "InputIteratorConcept" -> <<"IteratorConcept">>
      [] c = "ForwardIteratorConcept" -> <<"DefaultConstructibleConcept", "InputIteratorConcept">>
      [] c = "BidirectionalIteratorConcept" -> <<"ForwardIteratorConcept">>
      [] c = "RandomAccessIteratorConcept" -> <<"BidirectionalIteratorConcept">>
      [] OTHER -> <<>>

\* the base-class list of concept class c, in declaration order
Bases(c) ==
    CASE c = "InputIteratorConcept" -> <<"EqualityComparableConcept", "IteratorConcept">>
      [] c = "ForwardIteratorConcept" -> <<"DefaultConstructibleConcept", "InputIteratorConcept">>
      [] c = "BidirectionalIteratorConcept" -> <<"ForwardIteratorConcept">>
      [] c = "RandomAccessIteratorConcept" -> <<"BidirectionalIteratorConcept">>
      [] OTHER -> <<>>

\* the member aliases of concept class c that read std::iterator_traits<T>
Alias(l, n) == [line |-> l, name |-> n]

AssociatedTypes(c) ==
    CASE c = "IteratorConcept" ->
           << Alias(29, "value_type"), Alias(30, "difference_type"), Alias(31, "reference"),
              Alias(32, "pointer"), Alias(33, "iterator_category") >>
      [] c = "InputIteratorConcept" -> << Alias(48, "value_type"), Alias(49, "reference") >>
      [] c = "ForwardIteratorConcept" -> << Alias(66, "reference") >>
      [] c = "BidirectionalIteratorConcept" -> << Alias(77, "reference") >>
      [] c = "RandomAccessIteratorConcept" ->
           << Alias(89, "value_type"), Alias(90, "difference_type"), Alias(91, "reference") >>
      [] OTHER -> <<>>

(***************************************************************************)
(* What the compiler reports.                                              *)
(***************************************************************************)
Diag(c, l, k, m) == [concept |-> c, line |-> l, kind |-> k, msg |-> m]

RECURSIVE Flatten(_)
Flatten(ss) == IF ss = <<>> THEN <<>> ELSE Head(ss) \o Flatten(Tail(ss))

\* the type a requirement compares with, for candidate T
Resolve(target, T) ==
    CASE target = "T" -> Tval
      [] target = "T&" -> Tref
      [] target = "const T&" -> Tcref
      [] target = "bool" -> Bool
      [] target = "reference" -> T.reference
      [] target = "value_type" -> T.value_type
      [] target = "difference_type" -> T.difference_type

\* variant: a missing associated type is not reported where the class is defined
ClassDiagsSilent(c, T) ==
    IF T.traits /\ c = "RandomAccessIteratorConcept" /\ T.difference_type.base = "void"
    THEN << Diag(c, 109, "member", "n"), Diag(c, 109, "member", "difference_type") >>
    ELSE <<>>

\* instantiating the definition of class c<T>: the aliases are extracted from
\* std::iterator_traits<T>, and the member  difference_type n;  needs an object
\* type: with void the declaration is rejected for n and for the use of void
ClassDiags(c, T) ==
    IF ~T.traits
    THEN [i \in 1..Len(AssociatedTypes(c)) |->
            Diag(c, AssociatedTypes(c)[i].line, "extraction", AssociatedTypes(c)[i].name)]
    ELSE IF c = "RandomAccessIteratorConcept" /\ T.difference_type.base = "void"
         THEN << Diag(c, 109, "member", "n"), Diag(c, 109, "member", "difference_type") >>
         ELSE <<>>

\* the associated types class c<T> failed to obtain
Broken(c, T) ==
    IF ~T.traits
    THEN {AssociatedTypes(c)[i].name : i \in 1..Len(AssociatedTypes(c))}
    ELSE IF c = "RandomAccessIteratorConcept" /\ T.difference_type.base = "void"
         THEN {"difference_type"}
         ELSE {}

\* one statement of a usage body: an expression that does not compile is the
\* compiler's own error, a false condition is the static_assert's message; an
\* expression statement that yields a T by value destroys that temporary
EvalReq(r, T, c) ==
    IF r.kind = "trait"
    THEN IF T[r.expr] THEN <<>> ELSE << Diag(c, r.line, "static_assert", r.msg) >>
    ELSE IF T[r.expr] = NoExpr THEN << Diag(c, r.line, "ill_formed", r.expr) >>
    ELSE IF r.kind = "expr"
         THEN IF T[r.expr] = Tval /\ ~T.destructible
              THEN << Diag(c, r.line, "ill_formed", r.expr) >>
              ELSE <<>>
    ELSE IF r.kind = "init"
         THEN IF IsConvertible(T[r.expr], Resolve(r.target, T)) THEN <<>>
              ELSE << Diag(c, r.line, "ill_formed", r.expr) >>
    ELSE IF r.kind = "same"
         THEN IF IsSame(T[r.expr], Resolve(r.target, T)) THEN <<>>
              ELSE << Diag(c, r.line, "static_assert", r.msg) >>
    ELSE IF IsConvertible(T[r.expr], Resolve(r.target, T)) THEN <<>>
         ELSE << Diag(c, r.line, "static_assert", r.msg) >>

\* c with all its base classes, bases first, in declaration order
RECURSIVE Linear(_)
Linear(c) == Flatten([i \in 1..Len(Bases(c)) |-> Linear(Bases(c)[i])]) \o <<c>>

\* the elements of the sequence s
Range(s) == {s[i] : i \in DOMAIN s}

\* s without the elements of the set S
RECURSIVE Without(_, _)
Without(s, S) ==
    IF s = <<>> THEN <<>>
    ELSE IF Head(s) \in S THEN Without(Tail(s), S)
    ELSE <<Head(s)>> \o Without(Tail(s), S)

\* the order in which the usage bodies are instantiated: the assertion calls
\* the destructor of the asserted class itself, the in-class usage assertions
\* reach theirs through usage_requirements<>, one instantiation later.  With
\* BOOST_OLD_CONCEPT_SUPPORT (old) the classes are complete where the assertion
\* is written and the bases follow in the order of their definition; without
\* it they are completed inside the assertion's function, and the destructors
\* of the direct bases, which the destructor of the asserted class calls, come
\* ahead of the remaining ones
UsageOrder(c, old) ==
    IF old THEN <<c>> \o Without(Linear(c), {c})
    ELSE <<c>> \o Bases(c) \o Without(Linear(c), {c} \cup Range(Bases(c)))

\* the closing line of the usage body of a concept class with data members of
\* type T; DefaultConstructibleConcept has none
UsageEnd(c) ==
    CASE c = "EqualityComparableConcept" -> 21
      [] c = "IteratorConcept" -> 41
      [] c = "InputIteratorConcept" -> 58
      [] c = "ForwardIteratorConcept" -> 70
      [] c = "BidirectionalIteratorConcept" -> 82
      [] c = "RandomAccessIteratorConcept" -> 104
      [] OTHER -> 0

\* the number of data members of type T that concept class c declares
\* (T a; const T b;  T t;  T i; const T j;  T i;  T i;  T i; const T a, b;)
Members(c) ==
    CASE c = "EqualityComparableConcept" -> 2
      [] c = "IteratorConcept" -> 1
      [] c = "InputIteratorConcept" -> 2
      [] c = "ForwardIteratorConcept" -> 1
      [] c = "BidirectionalIteratorConcept" -> 1
      [] c = "RandomAccessIteratorConcept" -> 3
      [] OTHER -> 0

\* the members of type T in an object of class c, those of its bases included
RECURSIVE AllMembers(_)
AllMembers(cs) == IF cs = <<>> THEN 0 ELSE Members(Head(cs)) + AllMembers(Tail(cs))

\* where the assertion writes the destructor call of the asserted class: not a
\* line of main.cpp but of the header included at line 1
BoostHeader == 0

\* the usage body is the destructor of c<T>: it destroys the members of type T,
\* one error per member when T has no destructor.  For the asserted class (top)
\* the errors are met where the assertion calls the destructor, for the whole
\* object; for a base class at the end of its own body, for its own members
MemberDiags(c, T, top) ==
    IF T.destructible THEN <<>>
    ELSE IF top
         THEN [i \in 1..AllMembers(Linear(c)) |-> Diag(c, BoostHeader, "member", "~T")]
         ELSE [i \in 1..Members(c) |-> Diag(c, UsageEnd(c), "member", "~T")]

\* instantiating the usage body (the destructor) of c<T>.  followOn: whether the
\* compiler still diagnoses the body of a class whose definition had errors;
\* statements naming a type that was not obtained are never diagnosed again.
\* The destruction of the members is reported ahead of the statements; the
\* destructor call of the asserted class is checked whatever its definition
\* was like, and its body is not looked at once that call failed
UsageDiags(c, T, followOn, top) ==
    IF top /\ MemberDiags(c, T, TRUE) # <<>> THEN <<>>
    ELSE IF ClassDiags(c, T) # <<>> /\ ~followOn THEN <<>>
    ELSE MemberDiags(c, T, FALSE)
         \o Flatten([i \in 1..Len(Usage(c)) |->
                       IF Usage(c)[i].needs \cap Broken(c, T) # {} THEN <<>>
                       ELSE EvalReq(Usage(c)[i], T, c)])

\* the errors of the class definitions of c<T> and its bases
DefinitionDiags(c, T) == Flatten([i \in 1..Len(Linear(c)) |-> ClassDiags(Linear(c)[i], T)])

\* without BOOST_OLD_CONCEPT_SUPPORT the classes are defined and the destructor
\* is called inside the one function the assertion instantiates; when that
\* function has an error the bodies queued from within it are not instantiated
Abandoned(c, T, old) ==
    ~old /\ (DefinitionDiags(c, T) # <<>> \/ MemberDiags(c, T, TRUE) # <<>>)

\* everything BOOST_CONCEPT_ASSERT((c<T>)) reports
Diagnose(c, T, followOn, old) ==
    DefinitionDiags(c, T)
    \o MemberDiags(c, T, TRUE)
    \o IF Abandoned(c, T, old) THEN <<>>
       ELSE Flatten([i \in 1..Len(UsageOrder(c, old)) |->
                       UsageDiags(UsageOrder(c, old)[i], T, followOn, i = 1)])

\* the assertion compiles, whichever way the header is configured
Passes(c, T) == \A old \in BOOLEAN : Diagnose(c, T, FALSE, old) = <<>>

(***************************************************************************)
(* The assertions of tests() and the candidates probed one at a time.      *)
(***************************************************************************)
\* the enabled assertions, lines 120-123
Tests(post) ==
    << <<"RandomAccessIteratorConcept", VectorIter>>,
       <<"BidirectionalIteratorConcept", ListIter>>,
       <<"ForwardIteratorConcept", FwdListIter>>,
       <<"InputIteratorConcept", IstreambufIter(post)>> >>

NumTests == 4

LibraryTypes ==
    {VectorIter, ListIter, FwdListIter, OstreambufIter}
    \cup {IstreambufIter(p) : p \in IstreambufPostIncrement}

\* the values a single inspected property may take instead
Alternatives(f) ==
    IF f \in TraitFields \cup {"traits"} THEN BOOLEAN
    ELSE IF f \in AssocFields THEN {IntVal, IntRef, Long, Void}
    ELSE {NoExpr, Void, Tval, Tref, Tcref, IntVal}

\* whether the result of i++ or i-- can be the operand of operator*: it is of
\* class type, and a temporary T can be destroyed again
Operand(T, result) ==
    /\ result.base \in {"T", "proxy"}
    /\ result = Tval => T.destructible

\* what operator* gives for the result of i++ or i--, own being what the
\* candidate says for that expression: nothing when the result is no operand;
\* what *i gives when the result is a T&, as i itself is
Dereferenced(T, result, own) ==
    IF ~Operand(T, result) THEN NoExpr
    ELSE IF result = Tref THEN T.deref
    ELSE own

\* what C++ fixes about a type once the other properties are chosen: a type
\* that cannot be destroyed is not constructible either (std::is_constructible),
\* *i++ and *i-- exist only where i++ and i-- return a usable operand, and
\* they are the same expression when i++ and i-- return the same
Normalise(T) ==
    [T EXCEPT !.default_constructible = @ /\ T.destructible,
              !.copy_constructible = @ /\ T.destructible,
              !.deref_postinc = Dereferenced(T, T.postinc, @),
              !.deref_postdec = Dereferenced(T, T.postdec,
                                    IF T.postdec = T.postinc THEN T.deref_postinc ELSE @)]

RECURSIVE Defective(_, _)
Defective(S, n) ==
    IF n = 0 THEN S
    ELSE Defective(S \cup UNION {{Normalise([t EXCEPT ![f] = v]) :
                                      v \in Alternatives(f), t \in S} :
                                    f \in DOMAIN VectorIter},
                   n - 1)

Candidates == LibraryTypes \cup {Disabled} \cup Defective({VectorIter}, MaxDefects)

(***************************************************************************)
(* Compiling one translation unit.  The functions and destructors a        *)
(* template use asks for are not instantiated on the spot: the compiler    *)
(* appends them to its list of pending instantiations and works through    *)
(* that list, first in first out, at the end of the translation unit.      *)
(***************************************************************************)
\* one pending instantiation, asked for on behalf of assertion number k:
\*   "failed"             requirement<c<T>>::failed(), the function the
\*                        assertion names; it calls the destructor of c<T>
\*   "requirements"       the same function for usage_requirements<c<T>>,
\*                        named by the BOOST_CONCEPT_USAGE member of class c<T>
\*   "usage_requirements" ~usage_requirements<c<T>>(), which calls ~c<T>()
\*   "destructor"         ~c<T>(), the usage body
Item(kd, c, k) == [kind |-> kd, concept |-> c, test |-> k]

\* a specialisation is instantiated, or made pending, once
Key(as, e) == <<e.kind, e.concept, as[e.test][2]>>

Keys(as, items) == {Key(as, items[i]) : i \in DOMAIN items}

\* the items not asked for before
Fresh(as, items, K) == SelectSeq(items, LAMBDA e : Key(as, e) \notin K)

\* what a call of ~c<T>() reports where it is written: the exception
\* specification of the destructor is worked out from the members and the
\* bases, once for each class (K: what the unit has done so far), with one
\* error for each member whose type has no destructor
HeaderDiags(c, T, K) ==
    IF T.destructible THEN <<>>
    ELSE [i \in 1..AllMembers(SelectSeq(Linear(c), LAMBDA x : <<"noexcept", x, T>> \notin K))
            |-> Diag(c, BoostHeader, "member", "~T")]

Deduced(c, T) == {<<"noexcept", Linear(c)[i], T>> : i \in DOMAIN Linear(c)}

\* a call of ~c<T>() asks for its body once for each way of calling it (way:
\* "complete" for the call written in the header, "base" for the call a
\* derived destructor makes).  The body becomes pending unless it already is,
\* unless the class definition had errors (and the compiler does not follow
\* on), and unless the calling function has reported an error (clean: it has not)
Requested(way, c, T, K, followOn, clean) ==
    /\ <<way, c, T>> \notin K
    /\ clean
    /\ ClassDiags(c, T) = <<>> \/ followOn
    /\ <<"destructor", c, T>> \notin K

Init ==
    /\ unit = "none"
    /\ testNo = 0
    /\ assertions = <<>>
    /\ cand = VectorIter
    /\ asserted = "IteratorConcept"
    /\ cascade = FALSE
    /\ oldSupport = TRUE
    /\ pc = "idle"
    /\ classQueue = <<>>
    /\ pending = <<>>
    /\ known = {}
    /\ errorsAt = <<>>
    /\ diags = <<>>

\* the compiler reaches assertion number k of the unit as.  With
\* BOOST_OLD_CONCEPT_SUPPORT the asserted class must be complete where the
\* assertion is written, so it and its bases are instantiated now; without it
\* only the assertion's function is made pending
ConceptAssert(as, k) ==
    /\ testNo' = k
    /\ asserted' = as[k][1]
    /\ cand' = as[k][2]
    /\ IF oldSupport'
       THEN /\ classQueue' = Linear(as[k][1])
            /\ pc' = "classes"
            /\ pending' = pending
            /\ known' = known
       ELSE /\ classQueue' = <<>>
            /\ pc' = IF k < Len(as) THEN "parsed" ELSE "pending"
            /\ pending' = pending \o Fresh(as, <<Item("failed", as[k][1], k)>>, known)
            /\ known' = known \cup Keys(as, <<Item("failed", as[k][1], k)>>)

\* a translation unit with the assertions as is started
Translate(as) ==
    /\ assertions' = as
    /\ errorsAt' = [k \in DOMAIN as |-> 0]
    /\ oldSupport' \in BOOLEAN
    /\ cascade' \in IF oldSupport' /\ \E k \in DOMAIN as : DefinitionDiags(as[k][1], as[k][2]) # <<>>
                    THEN BOOLEAN ELSE {FALSE}
    /\ ConceptAssert(as, 1)
    /\ UNCHANGED diags

\* compiling main.cpp as it is: tests() with its first assertion
RunTests ==
    /\ pc = "idle"
    /\ unit' = "tests"
    /\ \E p \in IstreambufPostIncrement : Translate(Tests(p))

\* the next assertion of tests(): it is parsed when the previous one is, before
\* anything pending is instantiated
NextTest ==
    /\ pc = "parsed"
    /\ testNo < Len(assertions)
    /\ UNCHANGED <<unit, assertions, cascade, oldSupport, errorsAt, diags>>
    /\ ConceptAssert(assertions, testNo + 1)

\* compiling a single assertion about a candidate, as the disabled lines 125-129 do
Probe ==
    /\ pc = "idle"
    /\ unit' = "probe"
    /\ \E c \in Concepts, T \in Candidates : Translate(<< <<c, T>> >>)

\* the destructor call in the function of assertion k, which began when since
\* errors had been reported: the destructor of the asserted class is checked
\* there and its body asked for
CallDestructor(k, rest, since) ==
    LET c == assertions[k][1]
        T == assertions[k][2]
        header == HeaderDiags(c, T, known)
        dtor == IF Requested("complete", c, T, known, cascade, Len(diags) + Len(header) = since)
                THEN <<Item("destructor", c, k)>> ELSE <<>>
    IN /\ diags' = diags \o header
       /\ pending' = rest \o dtor
       /\ known' = known \cup Deduced(c, T) \cup {<<"complete", c, T>>} \cup Keys(assertions, dtor)
       /\ pc' = IF pending' = <<>> THEN "done" ELSE "pending"

\* the definition of the next class is instantiated, unless the unit has
\* instantiated it before; its BOOST_CONCEPT_USAGE member makes the usage
\* assertion pending.  After the last class the assertion itself follows: with
\* BOOST_OLD_CONCEPT_SUPPORT its function is made pending, without it the
\* function is being instantiated and goes on to the destructor call
InstantiateClass ==
    /\ pc = "classes"
    /\ classQueue # <<>>
    /\ LET c == Head(classQueue)
           new == <<"class", c, cand>> \notin known
           own == IF new THEN <<Item("requirements", c, testNo)>> ELSE <<>>
           last == Tail(classQueue) = <<>>
           fn == IF last /\ oldSupport THEN <<Item("failed", c, testNo)>> ELSE <<>>
           K == known \cup {<<"class", c, cand>>} \cup Keys(assertions, own)
       IN /\ diags' = diags \o (IF new THEN ClassDiags(c, cand) ELSE <<>>)
          /\ pending' = pending \o own \o Fresh(assertions, fn, K)
          /\ known' = K \cup Keys(assertions, fn)
          /\ pc' = IF ~last THEN "classes"
                   ELSE IF ~oldSupport THEN "failed"
                   ELSE IF testNo < Len(assertions) THEN "parsed" ELSE "pending"
    /\ classQueue' = Tail(classQueue)
    /\ UNCHANGED <<unit, testNo, assertions, cand, asserted, cascade, oldSupport, errorsAt>>

\* the pending function of an assertion is instantiated.  The number of errors
\* so far is noted for it.  With BOOST_OLD_CONCEPT_SUPPORT the classes are
\* complete and the function is its destructor call; without it the asserted
\* class is completed first
InstantiateAssertion ==
    /\ pc = "pending"
    /\ pending # <<>>
    /\ Head(pending).kind = "failed"
    /\ LET k == Head(pending).test
       IN /\ testNo' = k
          /\ asserted' = assertions[k][1]
          /\ cand' = assertions[k][2]
          /\ errorsAt' = [errorsAt EXCEPT ![k] = Len(diags)]
          /\ IF oldSupport
             THEN /\ CallDestructor(k, Tail(pending), Len(diags))
                  /\ classQueue' = classQueue
             ELSE /\ classQueue' = Linear(assertions[k][1])
                  /\ pending' = Tail(pending)
                  /\ pc' = "classes"
                  /\ UNCHANGED <<known, diags>>
    /\ UNCHANGED <<unit, assertions, cascade, oldSupport>>

\* without BOOST_OLD_CONCEPT_SUPPORT: the asserted class is complete, the
\* assertion's function goes on to its destructor call
InstantiateDestructorCall ==
    /\ pc = "failed"
    /\ CallDestructor(testNo, pending, errorsAt[testNo])
    /\ UNCHANGED <<unit, testNo, assertions, cand, asserted, cascade, oldSupport,
                   classQueue, errorsAt>>

\* the pending usage assertion of a class is instantiated: it makes
\* ~usage_requirements<>() pending.  It was asked for while the class was being
\* defined; when that was inside an assertion's function and an error has been
\* reported since that function began, the compiler gives it up
InstantiateRequirements ==
    /\ pc = "pending"
    /\ pending # <<>>
    /\ Head(pending).kind = "requirements"
    /\ LET e == Head(pending)
           next == <<Item("usage_requirements", e.concept, e.test)>>
           given_up == ~oldSupport /\ Len(diags) > errorsAt[e.test]
       IN /\ pending' = Tail(pending) \o (IF given_up THEN <<>> ELSE next)
          /\ pc' = IF pending' = <<>> THEN "done" ELSE "pending"
    /\ UNCHANGED <<unit, testNo, assertions, cand, asserted, cascade, oldSupport,
                   classQueue, known, errorsAt, diags>>

\* ~usage_requirements<c<T>>() is instantiated: it calls ~c<T>()
InstantiateUsageRequirements ==
    /\ pc = "pending"
    /\ pending # <<>>
    /\ Head(pending).kind = "usage_requirements"
    /\ LET e == Head(pending)
           T == assertions[e.test][2]
           dtor == IF Requested("complete", e.concept, T, known, cascade, TRUE)
                   THEN <<Item("destructor", e.concept, e.test)>> ELSE <<>>
       IN /\ pending' = Tail(pending) \o dtor
          /\ known' = known \cup {<<"complete", e.concept, T>>} \cup Keys(assertions, dtor)
          /\ pc' = IF pending' = <<>> THEN "done" ELSE "pending"
    /\ UNCHANGED <<unit, testNo, assertions, cand, asserted, cascade, oldSupport,
                   classQueue, errorsAt, diags>>

\* the next pending usage body is instantiated: it calls the destructors of
\* the direct bases, then destroys its members and runs its statements
InstantiateUsage ==
    /\ pc = "pending"
    /\ pending # <<>>
    /\ Head(pending).kind = "destructor"
    /\ LET e == Head(pending)
           T == assertions[e.test][2]
           B == Bases(e.concept)
           bases == SelectSeq([i \in DOMAIN B |-> Item("destructor", B[i], e.test)],
                              LAMBDA b : Requested("base", b.concept, T, known, cascade, TRUE))
       IN /\ diags' = diags \o UsageDiags(e.concept, T, cascade, FALSE)
          /\ pending' = Tail(pending) \o bases
          /\ known' = known \cup {<<"base", B[i], T>> : i \in DOMAIN B} \cup Keys(assertions, bases)
          /\ pc' = IF pending' = <<>> THEN "done" ELSE "pending"
    /\ UNCHANGED <<unit, testNo, assertions, cand, asserted, cascade, oldSupport,
                   classQueue, errorsAt>>

Next ==
    \/ RunTests
    \/ NextTest
    \/ Probe
    \/ InstantiateClass
    \/ InstantiateAssertion
    \/ InstantiateDestructorCall
    \/ InstantiateRequirements
    \/ InstantiateUsageRequirements
    \/ InstantiateUsage

Spec == Init /\ [][Next]_vars

TypeOK ==
    /\ unit \in {"none", "tests", "probe"}
    /\ testNo \in 0..NumTests
    /\ asserted \in Concepts
    /\ oldSupport \in BOOLEAN
    /\ pc \in {"idle", "classes", "parsed", "failed", "pending", "done"}
    /\ pc = "done" /\ unit = "probe" => diags = Diagnose(asserted, cand, cascade, oldSupport)

(***************************************************************************)
(* Properties.                                                             *)
(***************************************************************************)
Probed(c) == pc = "done" /\ unit = "probe" /\ asserted = c

Lines == {diags[i].line : i \in DOMAIN diags}

\* the prerequisite sets the hierarchy table lists for each level, transitively
Prerequisites(c) ==
    CASE c = "InputIteratorConcept" -> {"IteratorConcept", "EqualityComparableConcept"}
      [] c = "ForwardIteratorConcept" ->
           {"InputIteratorConcept", "IteratorConcept", "EqualityComparableConcept",
            "DefaultConstructibleConcept"}
      [] c = "BidirectionalIteratorConcept" ->
           {"ForwardIteratorConcept", "InputIteratorConcept", "IteratorConcept",
            "EqualityComparableConcept", "DefaultConstructibleConcept"}
      [] c = "RandomAccessIteratorConcept" ->
           {"BidirectionalIteratorConcept", "ForwardIteratorConcept", "InputIteratorConcept",
            "IteratorConcept", "EqualityComparableConcept", "DefaultConstructibleConcept"}
      [] OTHER -> {}

\* C1: a candidate for which the assertion of a level compiles also passes every
\* prerequisite set of that level (Random-Access => Bidirectional => Forward =>
\* Input => Iterator, Input => Equality-Comparable, Forward =>
\* Default-Constructible); so a candidate failing a prerequisite fails the level
C1_Refinement ==
    pc = "done" /\ unit = "probe" /\ diags = <<>>
        => \A p \in Prerequisites(asserted) : Passes(p, cand)

C1_Witness ==
    /\ Probed("RandomAccessIteratorConcept")
    /\ diags = <<>>
    /\ cand = VectorIter

\* C2: compiling tests() never reports anything: the vector iterator is a
\* random-access iterator, the list iterator a bidirectional one, the
\* forward_list iterator a forward one and the istreambuf iterator an input one
C2_TestsCompile == unit = "tests" => diags = <<>>

C2_Witness ==
    /\ unit = "tests"
    /\ pc = "done"
    /\ Len(assertions) = NumTests
    /\ \A k \in DOMAIN assertions :
          \A i \in DOMAIN Linear(assertions[k][1]) :
             <<"destructor", Linear(assertions[k][1])[i], assertions[k][2]>> \in known

\* C3: the list iterator fails the random-access assertion and the forward_list
\* iterator fails the bidirectional assertion; every diagnostic belongs to the
\* asserted level itself, and one of them is at the compound-assignment or
\* indexing requirement (list), at the decrement requirement (forward_list)
C3_NegativeContainers ==
    /\ Probed("RandomAccessIteratorConcept") /\ cand = ListIter
         => /\ diags # <<>>
            /\ \A i \in DOMAIN diags : diags[i].concept = "RandomAccessIteratorConcept"
            /\ \E i \in DOMAIN diags : diags[i].msg \in {"plus_assign", "minus_assign", "index"}
    /\ Probed("BidirectionalIteratorConcept") /\ cand = FwdListIter
         => /\ diags # <<>>
            /\ \A i \in DOMAIN diags : diags[i].concept = "BidirectionalIteratorConcept"
            /\ \E i \in DOMAIN diags : diags[i].msg \in {"predec", "postdec"}

C3_Witness ==
    /\ Probed("BidirectionalIteratorConcept")
    /\ cand = FwdListIter
    /\ Lines = {79, 80, 81}

IsIstreambuf == \E p \in IstreambufPostIncrement : cand = IstreambufIter(p)

\* C4 as claimed: the istreambuf iterator passes Input and fails Forward, with
\* a diagnostic at the default-construction requirement or at the
\* post-increment result type requirement
C4_Original ==
    Probed("ForwardIteratorConcept") /\ IsIstreambuf
        => /\ Passes("InputIteratorConcept", cand)
           /\ Lines \cap {13, 68} # {}

\* C4 amended: the istreambuf iterator passes Input and is default constructible,
\* so line 13 never fails for it; asserted as a forward iterator it fails only
\* where the library's operator++(int) returns a proxy, with the single
\* diagnostic of line 68, and compiles where operator++(int) returns the iterator
C4_IstreambufForward ==
    Probed("ForwardIteratorConcept") /\ IsIstreambuf
        => /\ Passes("InputIteratorConcept", cand)
           /\ 13 \notin Lines
           /\ cand.postinc = Proxy =>
                diags = << Diag("ForwardIteratorConcept", 68, "static_assert",
                                ForwardIteratorConcept[1].msg) >>
           /\ cand.postinc = Tval => diags = <<>>

C4_Witness ==
    /\ Probed("ForwardIteratorConcept")
    /\ cand = IstreambufIter(Proxy)
    /\ Lines = {68}

\* C5 as claimed: the ostreambuf iterator passes the Iterator level and fails
\* Input only at the dereference requirements (lines 52, 53, 57)
C5_Original ==
    Probed("InputIteratorConcept") /\ cand = OstreambufIter
        => /\ Passes("IteratorConcept", cand)
           /\ diags # <<>>
           /\ Lines \subseteq {52, 53, 57}

\* C5 amended: the ostreambuf iterator passes the Iterator level and fails Input
\* at the dereference requirements (52, 53, 57) and equally at the
\* Equality-Comparable prerequisite (19, 20) and the inequality comparison (51)
C5_OstreambufInput ==
    Probed("InputIteratorConcept") /\ cand = OstreambufIter
        => /\ Passes("IteratorConcept", cand)
           /\ Lines = {19, 20, 51, 52, 53, 57}
           /\ \A i \in DOMAIN diags : diags[i].concept # "IteratorConcept"

C5_Witness ==
    /\ Probed("InputIteratorConcept")
    /\ cand = OstreambufIter
    /\ 19 \in Lines /\ 52 \in Lines

\* C6: Disabled fails each primitive assertion with diagnostics of the asserted
\* check only: equality at the requirements of EqualityComparableConcept,
\* construction at the requirement of DefaultConstructibleConcept
C6_Disabled ==
    /\ Probed("EqualityComparableConcept") /\ cand = Disabled
         => /\ Lines = {19, 20}
            /\ \A i \in DOMAIN diags : diags[i].concept = "EqualityComparableConcept"
    /\ Probed("DefaultConstructibleConcept") /\ cand = Disabled
         => diags = << Diag("DefaultConstructibleConcept", 13, "static_assert",
                            "Type is not default constructible&") >>

C6_Witness ==
    /\ Probed("DefaultConstructibleConcept")
    /\ cand = Disabled
    /\ Len(diags) = 1

Primitives == {"DefaultConstructibleConcept", "EqualityComparableConcept"}

\* every pair of outcomes of the assertions a and b is shown by some candidate
Independent(a, b) ==
    \A p, q \in BOOLEAN : \E T \in Candidates : Passes(a, T) = p /\ Passes(b, T) = q

\* C7 as claimed: the primitive checks are independent of each other and of
\* every iterator level
C7_Original ==
    pc = "idle" =>
        /\ Independent("DefaultConstructibleConcept", "EqualityComparableConcept")
        /\ \A a \in Primitives, l \in IteratorLevels : Independent(a, l)

\* C7 amended: the primitive checks are independent of each other and of the
\* Iterator level, and Default-Constructible is independent of Input; but a
\* candidate passing Input or above passes Equality-Comparable and a candidate
\* passing Forward or above passes Default-Constructible
C7_PrimitiveIndependence ==
    /\ pc = "idle" =>
         /\ Independent("DefaultConstructibleConcept", "EqualityComparableConcept")
         /\ \A a \in Primitives : Independent(a, "IteratorConcept")
         /\ Independent("DefaultConstructibleConcept", "InputIteratorConcept")
    /\ pc = "done" /\ unit = "probe" /\ diags = <<>> =>
         /\ asserted \in IteratorLevels \ {"IteratorConcept"}
              => Passes("EqualityComparableConcept", cand)
         /\ asserted \in IteratorLevels \ {"IteratorConcept", "InputIteratorConcept"}
              => Passes("DefaultConstructibleConcept", cand)

C7_Witness ==
    /\ Probed("InputIteratorConcept")
    /\ diags = <<>>
    /\ ~cand.default_constructible

\* the classes of the assertion at hand have all been instantiated
ClassesDefined ==
    \A i \in DOMAIN Linear(asserted) : <<"class", Linear(asserted)[i], cand>> \in known

\* C8: for a candidate without the associated types, asserted at any iterator
\* level, the first thing reported is an extraction failure, reported when the
\* classes are defined and before any usage body is looked at; nothing else is
\* ever reported ahead of an extraction failure
C8_ExtractionFirst ==
    unit = "probe" /\ ~cand.traits /\ asserted \in IteratorLevels
        => /\ pc = "classes" => \A i \in DOMAIN diags : diags[i].kind = "extraction"
           /\ pc # "classes" /\ ClassesDefined => diags # <<>> /\ diags[1].kind = "extraction"
           /\ \A i, j \in DOMAIN diags :
                 i < j /\ diags[j].kind = "extraction" => diags[i].kind = "extraction"

C8_Witness ==
    /\ Probed("ForwardIteratorConcept")
    /\ cand = Disabled
    /\ \E i \in DOMAIN diags : diags[i].kind # "extraction"

\* C9: when exactly one static_assert fails, its message belongs to no other
\* requirement, so the failed requirement is recovered from the message
C9_TargetedDiagnostic ==
    pc = "done" /\ unit = "probe" /\ Len(diags) = 1 /\ diags[1].kind = "static_assert"
        => \A c \in Concepts : \A i \in DOMAIN Usage(c) :
              Usage(c)[i].msg = diags[1].msg => Usage(c)[i].line = diags[1].line

\* what the Iterator level asks besides the pre-increment
IteratorShape(T) ==
    /\ T.traits
    /\ T.copy_constructible /\ T.copy_assignable /\ T.destructible /\ T.swappable
    /\ T.deref # NoExpr

\* C10 as claimed: the Iterator level passes exactly for the candidates with the
\* iterator shape whose pre-increment result converts to the iterator type
C10_Original ==
    Probed("IteratorConcept")
        => (diags = <<>> <=> IteratorShape(cand) /\ IsConvertible(cand.preinc, Tval))

\* C10 amended: the Iterator level passes exactly for the candidates with the
\* iterator shape whose pre-increment result initialises a T& (an lvalue of the
\* iterator type); a by-value or const-reference result fails line 40
C10_IteratorLevel ==
    Probed("IteratorConcept")
        => (diags = <<>> <=> IteratorShape(cand) /\ cand.preinc = Tref)

C10_Witness ==
    /\ Probed("IteratorConcept")
    /\ IteratorShape(cand)
    /\ cand.preinc = Tval
    /\ Lines = {40}

====
